---------------------------- MODULE Spec2Model ----------------------------
(***************************************************************************)
(* The invoice form of src/src/components/InvoiceForm.tsx: the validation  *)
(* schema (invoiceSchema), the totals calculator (totals), the line-item   *)
(* list editor (useFieldArray: append / remove / field edits), the submit  *)
(* path (form.handleSubmit(onSubmit)), and the mount surface               *)
(* window.InvoiceForm = { render, unmount } of src/src/dist-readme.md.     *)
(*                                                                         *)
(* Representation.                                                         *)
(*  - A JavaScript object is a function from the keys it has to their      *)
(*    values: a key that is absent reads as undefined.                     *)
(*  - A free-text string is the sequence of its characters, so that        *)
(*    length and e-mail syntax are computed; an enumeration code (RF01,    *)
(*    TD07, N1) is a TLA+ string.                                          *)
(*  - Numbers are fixed point: a quantity counts 1/QuantityDen units       *)
(*    (QuantityDen = 200, so 0.005 is 1 and 0.01 is 2), a unit price       *)
(*    counts whole currency units and a VAT rate whole percents.  Floating *)
(*    point rounding is not modelled.                                      *)
(***************************************************************************)
EXTENDS Integers, Sequences, FiniteSets, TLC

VARIABLES
    values,        \* the form's record without lineItems (react-hook-form state)
    lineItems,     \* the form's lineItems array
    nextId,        \* the number of ids crypto.randomUUID() has handed out, plus 1
    totals,        \* the totals of the last render
    hasHandler,    \* whether the caller supplied onSubmit (customOnSubmit)
    handlerCalls,  \* how many times customOnSubmit was invoked
    lastArg,       \* the argument of its last invocation
    toasts,        \* how many times toast.success was shown
    submits,       \* how many times the form was submitted (handleSubmit ran)
    result,        \* the resolver's last result: NoResult, or [success, data, errors]
    pc,            \* "form": a mounted form; "input" / "done": a function before
                   \* and after it is applied to the inputs held in the variables;
                   \* "page": a page that mounts forms with window.InvoiceForm
    roots,         \* the React roots that are mounted, by the order of their creation
    ref,           \* container.__invoiceFormRoot: a root, or 0 when the property is absent
    nextRoot,      \* the number of calls of createRoot, plus 1
    clock          \* the instant the page runs at

\* What a submit writes, and the handler it calls.
submitVars == <<hasHandler, handlerCalls, lastArg, toasts, submits, result>>

\* What window.InvoiceForm.render and unmount write.
mountVars == <<roots, ref, nextRoot, clock>>

vars == <<values, lineItems, nextId, totals, submitVars, pc, mountVars>>

-----------------------------------------------------------------------------
(* Bounds of the model.                                                    *)

\* Add is offered at most MaxAdds times in a run (the line-item editor).
MaxAdds == 1
\* Submit is offered at most MaxSubmits times in a run.
MaxSubmits == 2
\* The calculator's inputs are the sequences of at most MaxCalcLen items.
MaxCalcLen == 2
\* Appends in one behaviour of the amounts editor.
MaxListAdds == 2
\* window.InvoiceForm.render is called at most MaxRenders times in a run.
MaxRenders == 2
\* The forms of a page get at most MaxFormOps appends and submits in a run,
\* all forms together.
MaxFormOps == 2

-----------------------------------------------------------------------------
(* Numbers.                                                                *)

\* A quantity q stands for q / QuantityDen.
QuantityDen == 2 * 100

\* z.number().min(0.01): 0.01 in quantity units.
MinQuantity == QuantityDen \div 100

\* z.number().min(0) on unitPrice.
MinUnitPrice == 0

\* z.number().min(0) on vatRate.
MinVatRate == 0

\* z.number().max(100) on vatRate.
MaxVatRate == 100

\* z.string().length(2) on the three country fields.
CountryLen == 2

\* z.string().min(11) on supplierVatNumber.
VatNumberMinLen == 11

\* z.string().min(5) on the two postal codes.
PostalCodeMinLen == 5

\* The default line item: quantity 1, unitPrice 0, vatRate 22.
DefaultQuantity == 1 * QuantityDen
DefaultUnitPrice == 0
DefaultVatRate == 22

-----------------------------------------------------------------------------
(* Strings.                                                                *)

Letters == {"a", "b", "e", "i", "l", "m", "n", "o", "t", "A", "E", "I", "R", "T", "U"}
Digits == {"0", "1", "2", "3", "4", "5", "6", "7", "8", "9"}
AlNum == Letters \cup Digits

EmptyStr == <<>>
StrA == <<"A">>
StrIT == <<"I", "T">>
StrI == <<"I">>
StrITA == <<"I", "T", "A">>
StrEUR == <<"E", "U", "R">>
StrVat11 == <<"1", "2", "3", "4", "5", "6", "7", "8", "9", "0", "1">>
StrVat10 == <<"1", "2", "3", "4", "5", "6", "7", "8", "9", "0">>
StrCap5 == <<"0", "0", "1", "0", "0">>
StrCap4 == <<"0", "0", "1", "0">>
\* new Date().toISOString().split('T')[0] on some day.
StrToday == <<"2", "0", "2", "4", "-", "0", "1", "-", "1", "5">>
StrNotAnEmail == <<"n", "o", "t", "-", "a", "n", "-", "e", "m", "a", "i", "l">>
StrPec == <<"a", "@", "b", ".", "i", "t">>
StrPecNoTld == <<"a", "@", "b">>
StrPecDotDot == <<"a", "@", "b", ".", ".", "i", "t">>
StrPecNoLocal == <<"@", "b", ".", "i", "t">>
StrPecTwoAt == <<"a", "@", "b", "@", "b", ".", "i", "t">>
StrPecSub == <<"a", ".", "b", "@", "m", "-", "1", ".", "b", ".", "i", "t">>

\* The positions of character c in s.
Positions(s, c) == {i \in 1..Len(s) : s[i] = c}

\* zod's e-mail pattern, case-insensitive:
\*   ^(?!\.)(?!.*\.\.)([A-Z0-9_'+\-\.]*)[A-Z0-9_+-]@([A-Z0-9][A-Z0-9\-]*\.)+[A-Z]{2,}$
\* One "@"; the local part is non-empty, does not start or end with ".", and the
\* whole string holds no ".."; the domain is two or more "."-separated labels, each
\* starting with a letter or digit and continuing with letters, digits or "-", the
\* last one two or more letters.
IsEmail(s) ==
    /\ Cardinality(Positions(s, "@")) = 1
    /\ LET at == CHOOSE i \in Positions(s, "@") : TRUE
           local == SubSeq(s, 1, at - 1)
           domain == SubSeq(s, at + 1, Len(s))
           lastDot == CHOOSE i \in Positions(domain, ".") :
                          \A j \in Positions(domain, ".") : j <= i
       IN  /\ Len(local) >= 1
           /\ \A i \in 1..Len(local) : local[i] \in AlNum \cup {"_", "'", "+", "-", "."}
           /\ local[1] # "."
           /\ local[Len(local)] \in AlNum \cup {"_", "+", "-"}
           /\ \A i \in 1..(Len(s) - 1) : ~(s[i] = "." /\ s[i + 1] = ".")
           /\ Positions(domain, ".") # {}
           /\ \A i \in 1..Len(domain) :
                  \/ domain[i] = "." /\ i > 1
                  \/ domain[i] \in AlNum
                  \/ domain[i] = "-" /\ i > 1 /\ domain[i - 1] # "."
           /\ Len(domain) - lastDot >= 2
           /\ \A i \in (lastDot + 1)..Len(domain) : domain[i] \in Letters


-----------------------------------------------------------------------------
(* The totals calculator (totals, lines 121-136).                          *)
(* Amounts count 1/(100 * QuantityDen) currency units, so that a VAT       *)
(* amount, lineTotal * (vatRate / 100), is a whole number of them.         *)

\* (item.f || 0): an undefined field counts 0 (and 0 stays 0).
OrZero(item, f) == IF f \in DOMAIN item THEN item[f] ELSE 0

\* const lineTotal = (item.quantity || 0) * (item.unitPrice || 0);
LineTotal(item) == OrZero(item, "quantity") * OrZero(item, "unitPrice") * 100

\* The VAT amount with the rate taken as a factor, not as a percentage.
VatAmountNoPercent(item) == LineTotal(item) * OrZero(item, "vatRate")

\* const vatAmount = lineTotal * ((item.vatRate || 0) / 100);
VatAmount(item) == (LineTotal(item) * OrZero(item, "vatRate")) \div 100

\* The reducer's body with the VAT amount left out of the grand total.
TotalsStepNoVat(acc, item) ==
    [subtotal |-> acc.subtotal + LineTotal(item),
     vatTotal |-> acc.vatTotal + VatAmount(item),
     total    |-> acc.total + LineTotal(item)]

\* The reducer's body: the three accumulators after one item.
TotalsStep(acc, item) ==
    [subtotal |-> acc.subtotal + LineTotal(item),
     vatTotal |-> acc.vatTotal + VatAmount(item),
     total    |-> acc.total + (LineTotal(item) + VatAmount(item))]

\* The reducer's initial accumulator.
ZeroTotals == [subtotal |-> 0, vatTotal |-> 0, total |-> 0]

RECURSIVE Reduce(_, _)
\* watchedLineItems.reduce(step, acc), left to right.
Reduce(items, acc) ==
    IF items = <<>> THEN acc
    ELSE Reduce(Tail(items), TotalsStep(acc, Head(items)))

\* The totals of a line-item sequence.
Totals(items) == Reduce(items, ZeroTotals)

-----------------------------------------------------------------------------
(* The validation schema (invoiceSchema, lines 16-64).                     *)
(* An issue is field-scoped: the field, and for a line item its 1-based    *)
(* index and the item's field (index 0 and sub "" otherwise).              *)

Issue(field, index, sub, message) ==
    [field |-> field, index |-> index, sub |-> sub, message |-> message]

\* z.string().min(n, msg).optional() written for z.string().min(n, msg): an
\* absent field raises no issue.
StringMinOptional(h, f, n, msg) ==
    IF f \in DOMAIN h /\ Len(h[f]) < n THEN {Issue(f, 0, "", msg)}
    ELSE {}

\* z.string().min(n, msg): required; at least n characters.
StringMin(h, f, n, msg) ==
    IF f \notin DOMAIN h THEN {Issue(f, 0, "", "Required")}
    ELSE IF Len(h[f]) < n THEN {Issue(f, 0, "", msg)}
    ELSE {}

\* z.string().min(n, msg) written for z.string().length(n, msg).
StringLengthAsMin(h, f, n, msg) ==
    IF f \notin DOMAIN h THEN {Issue(f, 0, "", "Required")}
    ELSE IF Len(h[f]) < n THEN {Issue(f, 0, "", msg)}
    ELSE {}

\* z.string().length(n, msg): required; exactly n characters.
StringLength(h, f, n, msg) ==
    IF f \notin DOMAIN h THEN {Issue(f, 0, "", "Required")}
    ELSE IF Len(h[f]) # n THEN {Issue(f, 0, "", msg)}
    ELSE {}

\* z.string().optional() written for z.string().email().optional().
OptionalEmailUnchecked(h, f) == {}

\* z.string().email().optional(): absent, or an e-mail address.
OptionalEmail(h, f) ==
    IF f \in DOMAIN h /\ ~IsEmail(h[f]) THEN {Issue(f, 0, "", "Invalid email")}
    ELSE {}

\* z.enum(codes): required; one of the codes.
EnumField(h, f, codes) ==
    IF f \notin DOMAIN h THEN {Issue(f, 0, "", "Required")}
    ELSE IF h[f] \notin codes THEN {Issue(f, 0, "", "Invalid enum value")}
    ELSE {}

\* The regime codes as the unbroken run RF01..RF19, RF03 included.
RegimeCodesUnbroken ==
    {"RF01", "RF02", "RF03", "RF04", "RF05", "RF06", "RF07", "RF08", "RF09", "RF10",
     "RF11", "RF12", "RF13", "RF14", "RF15", "RF16", "RF17", "RF18", "RF19"}

RegimeCodes ==
    {"RF01", "RF02", "RF04", "RF05", "RF06", "RF07", "RF08", "RF09", "RF10",
     "RF11", "RF12", "RF13", "RF14", "RF15", "RF16", "RF17", "RF18", "RF19"}

DocumentTypeCodes == {"TD07", "TD08", "TD09"}

VatNatureCodes == {"N1", "N2", "N3", "N4", "N5", "N6", "N7"}

\* The rule of each field of the record other than lineItems.
ProgressivoInvioRule(h) ==
    StringMin(h, "progressivoInvio", 1, "Progressive number is required")
PecDestinatarioRule(h) == OptionalEmail(h, "pecDestinatario")
SupplierCountryRule(h) ==
    StringLength(h, "supplierCountry", CountryLen, "Country code must be 2 characters")
SupplierVatNumberRule(h) ==
    StringMin(h, "supplierVatNumber", VatNumberMinLen,
              "VAT number must be at least 11 characters")
SupplierRegimeRule(h) == EnumField(h, "supplierRegime", RegimeCodes)
SupplierAddressRule(h) == StringMin(h, "supplierAddress", 1, "Address is required")
SupplierPostalCodeRule(h) ==
    StringMin(h, "supplierPostalCode", PostalCodeMinLen, "Postal code is required")
SupplierCityRule(h) == StringMin(h, "supplierCity", 1, "City is required")
SupplierCountryCodeRule(h) ==
    StringLength(h, "supplierCountryCode", CountryLen,
                 "Country code must be 2 characters")
CustomerAddressRule(h) ==
    StringMin(h, "customerAddress", 1, "Customer address is required")
CustomerPostalCodeRule(h) ==
    StringMin(h, "customerPostalCode", PostalCodeMinLen, "Postal code is required")
CustomerCityRule(h) == StringMin(h, "customerCity", 1, "City is required")
CustomerCountryCodeRule(h) ==
    StringLength(h, "customerCountryCode", CountryLen,
                 "Country code must be 2 characters")
DocumentTypeRule(h) == EnumField(h, "documentType", DocumentTypeCodes)
DocumentDateRule(h) == StringMin(h, "documentDate", 1, "Document date is required")
DocumentNumberRule(h) ==
    StringMin(h, "documentNumber", 1, "Document number is required")

\* The issues of the record's fields other than lineItems.  The optional
\* strings (codiceDestinatario, the names, civic numbers, provinces, fiscal
\* codes) and currency (z.string().default("EUR")) raise none for a string.
HeaderIssues(h) ==
    ProgressivoInvioRule(h) \cup PecDestinatarioRule(h) \cup SupplierCountryRule(h)
    \cup SupplierVatNumberRule(h) \cup SupplierRegimeRule(h)
    \cup SupplierAddressRule(h) \cup SupplierPostalCodeRule(h)
    \cup SupplierCityRule(h) \cup SupplierCountryCodeRule(h)
    \cup CustomerAddressRule(h) \cup CustomerPostalCodeRule(h)
    \cup CustomerCityRule(h) \cup CustomerCountryCodeRule(h)
    \cup DocumentTypeRule(h) \cup DocumentDateRule(h) \cup DocumentNumberRule(h)

\* id: z.string()
IdRule(item, i) ==
    IF "id" \notin DOMAIN item THEN {Issue("lineItems", i, "id", "Required")} ELSE {}

\* description: z.string().min(1, "Description is required")
DescriptionRule(item, i) ==
    IF "description" \notin DOMAIN item
    THEN {Issue("lineItems", i, "description", "Required")}
    ELSE IF Len(item.description) < 1
    THEN {Issue("lineItems", i, "description", "Description is required")}
    ELSE {}

\* quantity: z.number().min(0.01, "Quantity must be greater than 0")
QuantityRule(item, i) ==
    IF "quantity" \notin DOMAIN item
    THEN {Issue("lineItems", i, "quantity", "Required")}
    ELSE IF item.quantity < MinQuantity
    THEN {Issue("lineItems", i, "quantity", "Quantity must be greater than 0")}
    ELSE {}

\* unitPrice: z.number().min(0, "Unit price must be positive")
UnitPriceRule(item, i) ==
    IF "unitPrice" \notin DOMAIN item
    THEN {Issue("lineItems", i, "unitPrice", "Required")}
    ELSE IF item.unitPrice < MinUnitPrice
    THEN {Issue("lineItems", i, "unitPrice", "Unit price must be positive")}
    ELSE {}

\* vatRate: z.number().min(0).max(100, "VAT rate must be between 0 and 100")
VatRateRule(item, i) ==
    IF "vatRate" \notin DOMAIN item
    THEN {Issue("lineItems", i, "vatRate", "Required")}
    ELSE IF item.vatRate < MinVatRate
    THEN {Issue("lineItems", i, "vatRate", "Number must be greater than or equal to 0")}
    ELSE IF item.vatRate > MaxVatRate
    THEN {Issue("lineItems", i, "vatRate", "VAT rate must be between 0 and 100")}
    ELSE {}

\* vatNature: z.enum(["N1", ..., "N7"]).optional()
VatNatureRule(item, i) ==
    IF "vatNature" \in DOMAIN item /\ item.vatNature \notin VatNatureCodes
    THEN {Issue("lineItems", i, "vatNature", "Invalid enum value")}
    ELSE {}

\* The issues of the line item at index i.
ItemIssues(item, i) ==
    IdRule(item, i) \cup DescriptionRule(item, i) \cup QuantityRule(item, i)
    \cup UnitPriceRule(item, i) \cup VatRateRule(item, i) \cup VatNatureRule(item, i)

\* z.array(...) without its .min(1).
LineItemsMinRuleNone(items) == {}

\* z.array(...).min(1, "At least one line item is required")
LineItemsMinRule(items) ==
    IF Len(items) < 1
    THEN {Issue("lineItems", 0, "", "At least one line item is required")}
    ELSE {}

\* lineItems: every item's issues, and the array's own.
LineItemsIssues(items) ==
    UNION {ItemIssues(items[i], i) : i \in 1..Len(items)} \cup LineItemsMinRule(items)

\* All the issues of a record.
Issues(h, items) == HeaderIssues(h) \cup LineItemsIssues(items)

\* The parsed record: currency defaults to "EUR" when absent; lineItems joins
\* the other fields.
Parsed(h, items) ==
    (IF "currency" \in DOMAIN h THEN h ELSE h @@ [currency |-> StrEUR])
    @@ [lineItems |-> items]

\* No validation has run.
NoResult == [success |-> FALSE, data |-> <<>>, errors |-> {}]

\* The resolver stopping at the first issue it meets instead of collecting
\* the issues of every field.
ResolveFirstIssueOnly(h, items) ==
    IF Issues(h, items) = {}
    THEN [success |-> TRUE, data |-> Parsed(h, items), errors |-> {}]
    ELSE [success |-> FALSE, data |-> <<>>,
          errors |-> {CHOOSE e \in Issues(h, items) : TRUE}]

\* zodResolver(invoiceSchema): the parsed record, or the issues.
Resolve(h, items) ==
    IF Issues(h, items) = {}
    THEN [success |-> TRUE, data |-> Parsed(h, items), errors |-> {}]
    ELSE [success |-> FALSE, data |-> <<>>, errors |-> Issues(h, items)]


-----------------------------------------------------------------------------
(* The form's state (useForm, lines 91-112) and its operations.            *)

\* defaultValues, lineItems aside.
DefaultValues ==
    [progressivoInvio    |-> EmptyStr,
     supplierCountry     |-> StrIT,
     supplierCountryCode |-> StrIT,
     customerCountryCode |-> StrIT,
     documentType        |-> "TD07",
     currency            |-> StrEUR,
     documentDate        |-> StrToday,
     supplierRegime      |-> "RF01"]

\* defaultValues.lineItems[0], with the id crypto.randomUUID() returned.
InitialLineItem(id) ==
    [id |-> id, description |-> EmptyStr, quantity |-> DefaultQuantity,
     unitPrice |-> DefaultUnitPrice, vatRate |-> DefaultVatRate]

\* The appended item with a VAT rate of 0 instead of 22.
NewLineItemNoVat(id) ==
    [id |-> id, description |-> EmptyStr, quantity |-> 1 * QuantityDen,
     unitPrice |-> 0, vatRate |-> 0]

\* The appended item with one id for every item instead of a new one each.
NewLineItemSameId(id) ==
    [id |-> 1, description |-> EmptyStr, quantity |-> 1 * QuantityDen,
     unitPrice |-> 0, vatRate |-> 22]

\* The item addLineItem appends, with the id crypto.randomUUID() returned.
NewLineItem(id) ==
    [id |-> id, description |-> EmptyStr, quantity |-> 1 * QuantityDen,
     unitPrice |-> 0, vatRate |-> 22]

\* obj with obj.f = v (the key is added when absent).
SetKey(obj, f, v) == [k \in DOMAIN obj \cup {f} |-> IF k = f THEN v ELSE obj[k]]

\* The change of a field that puts the item's other fields back to those of
\* a new item.
SetItemFieldReset(items, i, f, v) ==
    [items EXCEPT ![i] = SetKey(NewLineItem(items[i].id), f, v)]

\* lineItems with lineItems[i].f = v.
SetItemField(items, i, f, v) == [items EXCEPT ![i] = SetKey(items[i], f, v)]

\* The removal of the last item, whatever the index.
RemoveLast(items, i) == SubSeq(items, 1, Len(items) - 1)

\* items without the item at index i.
RemoveAt(items, i) == SubSeq(items, 1, i - 1) \o SubSeq(items, i + 1, Len(items))

\* What a number input holds: a number, or text parseFloat makes NaN of.
NumberText(n) == [blank |-> FALSE, n |-> n]
BlankText == [blank |-> TRUE, n |-> 0]

\* parseFloat(e.target.value) || 0
ParseFloatOrZero(t) == IF t.blank THEN 0 ELSE t.n

\* What the user types into the inputs of a line item.
DescriptionInputs == {EmptyStr, StrA}
QuantityInputs == {NumberText(1 * QuantityDen), NumberText(2 * QuantityDen)}
UnitPriceInputs == {BlankText}
VatRateInputs == {NumberText(22), NumberText(10)}
VatNatureInputs == {"N2"}

\* An instant: the day of January 2024 it is in UTC, and on the user's
\* calendar.  At Noon the two agree; AfterMidnight in Rome it is already the
\* 16th there and still the 15th in UTC.
Noon == [utc |-> 15, local |-> 15]
AfterMidnight == [utc |-> 15, local |-> 16]
Instants == {Noon, AfterMidnight}

\* The elements of the page that forms are mounted into.
Containers == {"c1", "c2"}

\* No call of window.InvoiceForm.render yet: no root, and no container has
\* the property __invoiceFormRoot.
NoRoots ==
    /\ roots = <<>>
    /\ ref = [c \in Containers |-> 0]
    /\ nextRoot = 1

\* The mount surface is not in use, and it is Noon.
NoMounts == NoRoots /\ clock = Noon

\* useForm's state when the component mounts; the caller gave onSubmit or not.
Init ==
    /\ values = DefaultValues
    /\ lineItems = <<InitialLineItem(1)>>
    /\ nextId = 2
    /\ totals = Totals(lineItems)
    /\ hasHandler \in BOOLEAN
    /\ handlerCalls = 0
    /\ lastArg = <<>>
    /\ toasts = 0
    /\ submits = 0
    /\ result = NoResult
    /\ NoMounts
    /\ pc = "form"

\* The render after append or remove: they set a new array as the form's
\* lineItems, form.watch("lineItems") returns it, and useMemo, whose only
\* dependency it is, computes totals from it.
Render(items) ==
    /\ lineItems' = items
    /\ totals' = Totals(items)

\* The render after field.onChange: the value is set inside the form's
\* lineItems, and useMemo computes totals again only if
\* form.watch("lineItems") returns another array than at the render before;
\* when it returns the same array, changed in place, totals keeps its value.
RenderAfterChange(items) ==
    /\ lineItems' = items
    /\ totals' \in {Totals(items), totals}

\* addLineItem: append a new item; a behaviour has at most n appends.
AppendUpTo(n) ==
    /\ nextId <= 1 + n
    /\ Render(Append(lineItems, NewLineItem(nextId)))
    /\ nextId' = nextId + 1
    /\ UNCHANGED <<values, submitVars, pc, mountVars>>

\* addLineItem in the line-item list editor.
AddLineItem == AppendUpTo(MaxAdds)

\* Remove with the trash button rendered on every line, the last one too.
RemoveUnguarded(i) ==
    /\ i \in 1..Len(lineItems)
    /\ Render(RemoveAt(lineItems, i))
    /\ UNCHANGED <<values, nextId, submitVars, pc, mountVars>>

\* The trash button of line i, rendered only when fields.length > 1: remove(index).
Remove(i) ==
    /\ Len(lineItems) > 1
    /\ i \in 1..Len(lineItems)
    /\ Render(RemoveAt(lineItems, i))
    /\ UNCHANGED <<values, nextId, submitVars, pc, mountVars>>

\* field.onChange of lineItems.${index}.description
EditDescription(i, s) ==
    /\ i \in 1..Len(lineItems)
    /\ RenderAfterChange(SetItemField(lineItems, i, "description", s))
    /\ UNCHANGED <<values, nextId, submitVars, pc, mountVars>>

\* onChange of lineItems.${index}.quantity
EditQuantity(i, t) ==
    /\ i \in 1..Len(lineItems)
    /\ RenderAfterChange(SetItemField(lineItems, i, "quantity", ParseFloatOrZero(t)))
    /\ UNCHANGED <<values, nextId, submitVars, pc, mountVars>>

\* onChange of lineItems.${index}.unitPrice
EditUnitPrice(i, t) ==
    /\ i \in 1..Len(lineItems)
    /\ RenderAfterChange(SetItemField(lineItems, i, "unitPrice", ParseFloatOrZero(t)))
    /\ UNCHANGED <<values, nextId, submitVars, pc, mountVars>>

\* onChange of lineItems.${index}.vatRate
EditVatRate(i, t) ==
    /\ i \in 1..Len(lineItems)
    /\ RenderAfterChange(SetItemField(lineItems, i, "vatRate", ParseFloatOrZero(t)))
    /\ UNCHANGED <<values, nextId, submitVars, pc, mountVars>>

\* onValueChange of the Select of lineItems.${index}.vatNature
EditVatNature(i, code) ==
    /\ i \in 1..Len(lineItems)
    /\ RenderAfterChange(SetItemField(lineItems, i, "vatNature", code))
    /\ UNCHANGED <<values, nextId, submitVars, pc, mountVars>>

\* A field edit inside a line item.
EditLineItem ==
    \E i \in 1..Len(lineItems) :
        \/ \E s \in DescriptionInputs : EditDescription(i, s)
        \/ \E t \in QuantityInputs : EditQuantity(i, t)
        \/ \E t \in UnitPriceInputs : EditUnitPrice(i, t)
        \/ \E t \in VatRateInputs : EditVatRate(i, t)
        \/ \E c \in VatNatureInputs : EditVatNature(i, c)

\* The line-item list editor.
Next ==
    \/ AddLineItem
    \/ \E i \in 1..Len(lineItems) : Remove(i)
    \/ EditLineItem

Spec == Init /\ [][Next]_vars

\* The amounts editor: longer lists, and only the inputs totals is computed
\* from, with unit prices other than 0.
ListUnitPriceInputs == {BlankText, NumberText(100)}

\* addLineItem in the amounts editor.
AddListItem == AppendUpTo(MaxListAdds)

\* An edit of a quantity or of a unit price.
EditAmount ==
    \E i \in 1..Len(lineItems) :
        \/ \E t \in QuantityInputs : EditQuantity(i, t)
        \/ \E t \in ListUnitPriceInputs : EditUnitPrice(i, t)

NextList ==
    \/ AddListItem
    \/ \E i \in 1..Len(lineItems) : Remove(i)
    \/ EditAmount

SpecList == Init /\ [][NextList]_vars


-----------------------------------------------------------------------------
(* The submit path: form.handleSubmit(onSubmit), line 165.                 *)

\* onSubmit without its else: the toast is shown after the handler too.
OnSubmitToastToo(data) ==
    /\ toasts' = toasts + 1
    /\ IF hasHandler
       THEN /\ handlerCalls' = handlerCalls + 1
            /\ lastArg' = data
       ELSE UNCHANGED <<handlerCalls, lastArg>>

\* onSubmit (lines 138-145): the caller's handler when there is one, the
\* success toast otherwise.
OnSubmit(data) ==
    IF hasHandler
    THEN /\ handlerCalls' = handlerCalls + 1
         /\ lastArg' = data
         /\ toasts' = toasts
    ELSE /\ toasts' = toasts + 1
         /\ UNCHANGED <<handlerCalls, lastArg>>

\* handleSubmit taking the issues of lineItems for warnings: onSubmit is called
\* with the record as typed when the other fields raise none.
SubmitItemWarnings ==
    /\ submits < MaxSubmits
    /\ submits' = submits + 1
    /\ result' = Resolve(values, lineItems)
    /\ IF HeaderIssues(values) = {}
       THEN OnSubmit(Parsed(values, lineItems))
       ELSE UNCHANGED <<handlerCalls, lastArg, toasts>>
    /\ UNCHANGED <<values, lineItems, nextId, totals, hasHandler, pc, mountVars>>

\* handleSubmit: run the resolver on the form's record; onSubmit gets the
\* parsed record when there is no issue, and is not called otherwise.
Submit ==
    /\ submits < MaxSubmits
    /\ submits' = submits + 1
    /\ result' = Resolve(values, lineItems)
    /\ IF Resolve(values, lineItems).success
       THEN OnSubmit(Resolve(values, lineItems).data)
       ELSE UNCHANGED <<handlerCalls, lastArg, toasts>>
    /\ UNCHANGED <<values, lineItems, nextId, totals, hasHandler, pc, mountVars>>

\* obj with every key of typed set to typed's value.
Merge(obj, typed) ==
    [k \in DOMAIN obj \cup DOMAIN typed |-> IF k \in DOMAIN typed THEN typed[k] ELSE obj[k]]

\* The inputs outside lineItems filled so that every rule holds.
TypedValid ==
    [progressivoInvio    |-> <<"1">>,
     supplierVatNumber   |-> StrVat11,
     supplierAddress     |-> StrA,
     supplierPostalCode  |-> StrCap5,
     supplierCity        |-> StrA,
     supplierCountryCode |-> StrIT,
     customerAddress     |-> StrA,
     customerPostalCode  |-> StrCap5,
     customerCity        |-> StrA,
     documentNumber      |-> <<"7">>]

\* What the user has typed between two submits: the inputs outside lineItems
\* (header) and the inputs of line 1 (item).
FormInputs ==
    {[header |-> TypedValid, item |-> [description |-> StrA]],
     [header |-> TypedValid, item |-> [description |-> EmptyStr]],
     [header |-> TypedValid, item |-> [description |-> StrA, unitPrice |-> 100]],
     [header |-> TypedValid, item |-> [description |-> StrA, quantity |-> 0]],
     [header |-> TypedValid,
      item |-> [description |-> StrA, quantity |-> 2 * QuantityDen, vatRate |-> 0]],
     [header |-> SetKey(TypedValid, "pecDestinatario", StrPec),
      item |-> [description |-> StrA]],
     [header |-> SetKey(TypedValid, "pecDestinatario", StrNotAnEmail),
      item |-> [description |-> StrA]],
     [header |-> SetKey(TypedValid, "supplierCountryCode", StrITA),
      item |-> [description |-> StrA]],
     [header |-> SetKey(TypedValid, "supplierVatNumber", StrVat10),
      item |-> [description |-> StrA]],
     [header |-> [progressivoInvio |-> <<"1">>], item |-> [description |-> StrA]]}

\* A burst of field.onChange calls, one per input typed into: afterwards the
\* inputs hold what was typed.  Only Submit reads the fields outside
\* lineItems, so the states inside a burst differ from its end only in what
\* a submit there would see.
Type(typed) ==
    /\ values' = Merge(values, typed.header)
    /\ RenderAfterChange([lineItems EXCEPT ![1] = Merge(lineItems[1], typed.item)])
    /\ UNCHANGED <<nextId, submitVars, pc, mountVars>>

\* The user types, and submits.
NextSubmit ==
    \/ \E typed \in FormInputs : Type(typed)
    \/ Submit

SpecSubmit == Init /\ [][NextSubmit]_vars


-----------------------------------------------------------------------------
(* The calculator as a function: its inputs, and its application.          *)

\* S, and every object of S with key f set to a value of vals.
WithKey(S, f, vals) == S \cup {SetKey(x, f, v) : x \in S, v \in vals}

\* The sequences over S of length at most n.
SeqsUpTo(S, n) == UNION {[1..k -> S] : k \in 0..n}

\* Line items as the calculator may see them while the user edits: each of
\* quantity, unitPrice and vatRate a number or undefined.
CalcItems ==
    WithKey(WithKey(WithKey({[id |-> 1, description |-> StrA]},
                            "quantity", {1, QuantityDen, 3 * (QuantityDen \div 2), 0 - QuantityDen}),
                    "unitPrice", {0, 100}),
            "vatRate", {0, 22, 100, 101})

InitCalc ==
    /\ pc = "input"
    /\ lineItems \in SeqsUpTo(CalcItems, MaxCalcLen)
    /\ totals = ZeroTotals
    /\ values = DefaultValues
    /\ nextId = 2
    /\ hasHandler = FALSE
    /\ handlerCalls = 0
    /\ lastArg = <<>>
    /\ toasts = 0
    /\ submits = 0
    /\ result = NoResult
    /\ NoMounts

\* The calculator applied to the line items.
ComputeTotals ==
    /\ pc = "input"
    /\ pc' = "done"
    /\ totals' = Totals(lineItems)
    /\ UNCHANGED <<values, lineItems, nextId, submitVars, mountVars>>

SpecCalc == InitCalc /\ [][ComputeTotals]_vars

-----------------------------------------------------------------------------
(* The schema as a function: candidate records, and the resolver's run.    *)

\* obj without key f.
DropKey(obj, f) == [k \in DOMAIN obj \ {f} |-> obj[k]]

\* A record, lineItems aside, that every rule accepts.
ValidHeader == Merge(DefaultValues, TypedValid)

\* A line item every rule accepts.
ValidItem ==
    [id |-> 1, description |-> StrA, quantity |-> QuantityDen, unitPrice |-> 100,
     vatRate |-> 22]

\* The fields holding free text, and the texts tried in each.
TextFields ==
    {"progressivoInvio", "pecDestinatario", "supplierCountry", "supplierVatNumber",
     "supplierAddress", "supplierPostalCode", "supplierCity", "supplierCountryCode",
     "customerAddress", "customerPostalCode", "customerCity", "customerCountryCode",
     "currency", "documentDate", "documentNumber"}

Texts ==
    {EmptyStr, StrI, StrIT, StrITA, StrCap4, StrCap5, StrVat10, StrVat11,
     StrNotAnEmail, StrPec, StrPecNoTld, StrPecDotDot, StrPecNoLocal, StrPecTwoAt,
     StrPecSub}

\* The fields holding a code, and the codes tried in each.
CodeFields == {"supplierRegime", "documentType"}
Codes ==
    {"RF00", "RF01", "RF02", "RF03", "RF04", "RF05", "RF06", "RF07", "RF08", "RF09",
     "RF10", "RF11", "RF12", "RF13", "RF14", "RF15", "RF16", "RF17", "RF18", "RF19",
     "RF20", "rf01", "TD01", "TD06", "TD07", "TD08", "TD09", "TD10", "N1", ""}

\* ValidHeader with one field absent or changed, with two country fields
\* changed, and the record of a form nobody typed into.
CandidateHeaders ==
    {ValidHeader, DefaultValues}
    \cup {DropKey(ValidHeader, f) : f \in TextFields \cup CodeFields}
    \cup {SetKey(ValidHeader, f, t) : f \in TextFields, t \in Texts}
    \cup {SetKey(ValidHeader, f, c) : f \in CodeFields, c \in Codes}
    \cup {SetKey(SetKey(ValidHeader, "supplierCountry", t), "customerCountryCode", u) :
              t \in {StrIT, StrITA}, u \in {StrI, StrIT}}

\* The codes tried in vatNature.
VatNatureInputCodes == {"N0", "N1", "N2", "N3", "N4", "N5", "N6", "N7", "N8", "n1", ""}

\* Line items with each rule's field absent, at, inside and outside its bounds.
CandidateItems ==
    {DropKey(ValidItem, f) :
         f \in {"id", "description", "quantity", "unitPrice", "vatRate"}}
    \cup {Merge(ValidItem, x) :
              x \in WithKey([description : {EmptyStr, StrA},
                             quantity : {0 - QuantityDen, 0, 1, MinQuantity, QuantityDen},
                             unitPrice : {0 - 1, 0, 100},
                             vatRate : {0 - 1, 0, 22, 100, 101}],
                            "vatNature", VatNatureInputCodes)}

\* One record changed outside lineItems, or some line item changed.
Candidates ==
    {[header |-> h, items |-> <<ValidItem>>] : h \in CandidateHeaders}
    \cup {[header |-> ValidHeader, items |-> <<>>],
          [header |-> DefaultValues, items |-> <<>>]}
    \cup {[header |-> ValidHeader, items |-> <<x>>] : x \in CandidateItems}
    \cup {[header |-> ValidHeader, items |-> <<ValidItem, x>>] : x \in CandidateItems}
    \cup {[header |-> ValidHeader, items |-> <<x, ValidItem>>] : x \in CandidateItems}

InitValidate ==
    /\ pc = "input"
    /\ \E c \in Candidates :
           /\ values = c.header
           /\ lineItems = c.items
    /\ totals = ZeroTotals
    /\ nextId = 2
    /\ hasHandler = FALSE
    /\ handlerCalls = 0
    /\ lastArg = <<>>
    /\ toasts = 0
    /\ submits = 0
    /\ result = NoResult
    /\ NoMounts

\* The resolver applied to the record.
RunResolver ==
    /\ pc = "input"
    /\ pc' = "done"
    /\ result' = Resolve(values, lineItems)
    /\ UNCHANGED <<values, lineItems, nextId, totals, hasHandler, handlerCalls, lastArg,
                   toasts, submits, mountVars>>

SpecValidate == InitValidate /\ [][RunResolver]_vars


-----------------------------------------------------------------------------
(* The creation of the form: InvoiceForm's first render (lines 90-117).    *)

\* YYYY-MM-DD of a day of January 2024.
IsoDate(day) ==
    <<"2", "0", "2", "4", "-", "0", "1", "-">>
    \o <<<<"0", "1", "2", "3", "4", "5", "6", "7", "8", "9">>[(day \div 10) + 1],
         <<"0", "1", "2", "3", "4", "5", "6", "7", "8", "9">>[(day % 10) + 1]>>

\* new Date().toISOString().split('T')[0]: toISOString is in UTC.
ToISODate(now) == IsoDate(now.utc)

\* defaultValues, lineItems aside, of a form created at the instant now.
DefaultValuesAt(now) == [DefaultValues EXCEPT !.documentDate = ToISODate(now)]

\* Before the component renders: it may be any instant, and the caller gives
\* onSubmit or not.
InitCreate ==
    /\ pc = "input"
    /\ clock \in Instants
    /\ hasHandler \in BOOLEAN
    /\ values = <<>>
    /\ lineItems = <<>>
    /\ totals = ZeroTotals
    /\ nextId = 1
    /\ handlerCalls = 0
    /\ lastArg = <<>>
    /\ toasts = 0
    /\ submits = 0
    /\ result = NoResult
    /\ NoRoots

\* The first render: useForm takes defaultValues as the form's record, and
\* totals is computed from its line items.
CreateForm ==
    /\ pc = "input"
    /\ pc' = "form"
    /\ values' = DefaultValuesAt(clock)
    /\ nextId' = nextId + 1
    /\ Render(<<InitialLineItem(nextId)>>)
    /\ UNCHANGED <<submitVars, mountVars>>

\* The form is created, and then edited.
NextCreate ==
    \/ CreateForm
    \/ pc = "form" /\ Next

SpecCreate == InitCreate /\ [][NextCreate]_vars

-----------------------------------------------------------------------------

(* The mount surface: window.InvoiceForm = { render, unmount }             *)
(* (src/src/dist-readme.md, lines 212-237), on a page with the elements    *)
(* Containers.  A root is a React root with the form it renders; a root    *)
(* that is mounted is in roots, one that was unmounted is not.             *)

\* The state of the form a root renders: useForm's state when the component
\* mounts, and the onSubmit of the options (given or not).
NewForm(id, handler, now) ==
    [values     |-> DefaultValuesAt(now),
     lineItems  |-> <<InitialLineItem(id)>>,
     totals     |-> Totals(<<InitialLineItem(id)>>),
     hasHandler |-> handler]

\* render(container, options): createRoot(container), root.render(the form),
\* container.__invoiceFormRoot = root.
InvoiceFormAPI_render(c) ==
    /\ nextRoot <= MaxRenders
    /\ roots' = [r \in DOMAIN roots \cup {nextRoot} |->
                    IF r = nextRoot
                    THEN [container |-> c, form |-> NewForm(nextId, hasHandler, clock)]
                    ELSE roots[r]]
    /\ ref' = [ref EXCEPT ![c] = nextRoot]
    /\ nextRoot' = nextRoot + 1
    /\ nextId' = nextId + 1
    /\ UNCHANGED <<values, lineItems, totals, submitVars, pc, clock>>

\* unmount that leaves the property on the container.
InvoiceFormAPI_unmountKeepsProperty(c) ==
    /\ IF ref[c] # 0
       THEN /\ roots' = [r \in DOMAIN roots \ {ref[c]} |-> roots[r]]
            /\ ref' = ref
       ELSE UNCHANGED <<roots, ref>>
    /\ UNCHANGED <<nextRoot, clock, values, lineItems, nextId, totals, submitVars, pc>>

\* unmount(container): when the container has the property, root.unmount()
\* and delete container.__invoiceFormRoot; nothing otherwise.
InvoiceFormAPI_unmount(c) ==
    /\ IF ref[c] # 0
       THEN /\ roots' = [r \in DOMAIN roots \ {ref[c]} |-> roots[r]]
            /\ ref' = [ref EXCEPT ![c] = 0]
       ELSE UNCHANGED <<roots, ref>>
    /\ UNCHANGED <<nextRoot, clock, values, lineItems, nextId, totals, submitVars, pc>>

\* The form of root r is on the page: the first render of a root clears its
\* container, so of the roots of one container the last created shows.
Displayed(r) == r \in DOMAIN roots /\ ref[roots[r].container] = r

\* The form of root r becomes form; every other root is as it was.
SetForm(r, form) == roots' = [roots EXCEPT ![r].form = form]

\* The appends (each draws an id, as each render does) and the submits so far.
FormOps == (nextId - nextRoot) + submits

\* addLineItem in a store of line items that the forms of the page share.
AddLineItemInAll(r) ==
    /\ Displayed(r)
    /\ FormOps < MaxFormOps
    /\ roots' = [s \in DOMAIN roots |->
                    [roots[s] EXCEPT !.form.lineItems = Append(@, NewLineItem(nextId))]]
    /\ nextId' = nextId + 1
    /\ UNCHANGED <<ref, nextRoot, clock, values, lineItems, totals, submitVars, pc>>

\* addLineItem in the form of root r.
AddLineItemIn(r) ==
    /\ Displayed(r)
    /\ FormOps < MaxFormOps
    /\ LET items == Append(roots[r].form.lineItems, NewLineItem(nextId))
       IN  SetForm(r, [roots[r].form EXCEPT !.lineItems = items,
                                            !.totals = Totals(items)])
    /\ nextId' = nextId + 1
    /\ UNCHANGED <<ref, nextRoot, clock, values, lineItems, totals, submitVars, pc>>

\* remove(index) in the form of root r.
RemoveIn(r, i) ==
    /\ Displayed(r)
    /\ Len(roots[r].form.lineItems) > 1
    /\ i \in 1..Len(roots[r].form.lineItems)
    /\ LET items == RemoveAt(roots[r].form.lineItems, i)
       IN  SetForm(r, [roots[r].form EXCEPT !.lineItems = items,
                                            !.totals = Totals(items)])
    /\ UNCHANGED <<ref, nextRoot, clock, values, lineItems, nextId, totals, submitVars, pc>>

\* What the user types into a form of the page.
PageInputs == {[header |-> TypedValid, item |-> [description |-> StrA]]}

\* A burst of field.onChange calls in the form of root r.
TypeIn(r, typed) ==
    /\ Displayed(r)
    /\ LET f == roots[r].form
           items == [f.lineItems EXCEPT ![1] = Merge(f.lineItems[1], typed.item)]
       IN  \E t \in {Totals(items), f.totals} :
               SetForm(r, [f EXCEPT !.values = Merge(f.values, typed.header),
                                    !.lineItems = items,
                                    !.totals = t])
    /\ UNCHANGED <<ref, nextRoot, clock, values, lineItems, nextId, totals, submitVars, pc>>

\* handleSubmit in the form of root r: the resolver runs on that form's
\* record, and onSubmit gets the parsed record when there is no issue.
SubmitIn(r) ==
    /\ Displayed(r)
    /\ FormOps < MaxFormOps
    /\ submits' = submits + 1
    /\ LET res == Resolve(roots[r].form.values, roots[r].form.lineItems)
       IN  /\ result' = res
           /\ IF res.success
              THEN OnSubmit(res.data)
              ELSE UNCHANGED <<handlerCalls, lastArg, toasts>>
    /\ UNCHANGED <<mountVars, values, lineItems, nextId, totals, hasHandler, pc>>

\* An operation of the user on the form of root r.
FormStep(r) ==
    \/ AddLineItemIn(r)
    \/ \E i \in 1..Len(roots[r].form.lineItems) : RemoveIn(r, i)
    \/ \E typed \in PageInputs : TypeIn(r, typed)
    \/ SubmitIn(r)

\* A page before its script has called window.InvoiceForm; the script gives
\* every form an onSubmit, as the README's examples do.
InitPage ==
    /\ pc = "page"
    /\ values = <<>>
    /\ lineItems = <<>>
    /\ totals = ZeroTotals
    /\ nextId = 1
    /\ hasHandler = TRUE
    /\ handlerCalls = 0
    /\ lastArg = <<>>
    /\ toasts = 0
    /\ submits = 0
    /\ result = NoResult
    /\ NoMounts

\* The page's script renders and unmounts; the user works on the forms.
NextPage ==
    \/ \E c \in Containers : InvoiceFormAPI_render(c)
    \/ \E c \in Containers : InvoiceFormAPI_unmount(c)
    \/ \E r \in DOMAIN roots : FormStep(r)

SpecPage == InitPage /\ [][NextPage]_vars

-----------------------------------------------------------------------------

(* The line-item list editor's properties (Spec).                          *)

\* C1: from the initial state, after any sequence of Add, Remove(index) and
\* field edits, the line-item sequence has at least one item: Remove is not
\* offered when exactly one item is left.
C1_NeverEmpty ==
    /\ Len(lineItems) >= 1
    /\ Len(lineItems) = 1 => ~ENABLED (\E i \in 1..Len(lineItems) : Remove(i))

\* C1: an item was added, one was removed, and a single item is left, on
\* which Remove is not offered.
C1_Witness ==
    /\ pc = "form"
    /\ nextId > 2
    /\ Len(lineItems) = 1
    /\ ~ENABLED (\E i \in 1..Len(lineItems) : Remove(i))

\* C5: Add makes the sequence one longer, puts the new item last, leaves
\* every item that was there as and where it was, and the new item is the
\* initial item but for its id: description empty, quantity 1, unitPrice 0,
\* vatRate 22, no vatNature.  (An Add step is a step that draws an id.)
C5_AddAppendsDefault ==
    [][nextId' = nextId + 1 =>
          /\ Len(lineItems') = Len(lineItems) + 1
          /\ SubSeq(lineItems', 1, Len(lineItems)) = lineItems
          /\ LET new == lineItems'[Len(lineItems')]
             IN  /\ new = InitialLineItem(new.id)
                 /\ new.description = EmptyStr
                 /\ new.quantity = DefaultQuantity
                 /\ new.unitPrice = DefaultUnitPrice
                 /\ new.vatRate = DefaultVatRate
                 /\ "vatNature" \notin DOMAIN new]_vars

\* C5: an item was added after the first one was edited.
C5_Witness ==
    /\ pc = "form"
    /\ Len(lineItems) = 2
    /\ nextId = 3
    /\ lineItems[1].description = StrA
    /\ lineItems[1].quantity = 2 * QuantityDen
    /\ "vatNature" \in DOMAIN lineItems[1]
    /\ lineItems[2] = InitialLineItem(2)

-----------------------------------------------------------------------------
(* The calculator's properties (SpecCalc).                                 *)

\* A numeric field of an item, a missing one counted as 0.
FieldOr0(item, f) == IF f \in DOMAIN item THEN item[f] ELSE 0

RECURSIVE SumQtyPrice(_)
\* The sum over the items of quantity * unitPrice, in quantity units.
SumQtyPrice(items) ==
    IF Len(items) = 0 THEN 0
    ELSE SumQtyPrice(SubSeq(items, 1, Len(items) - 1))
         + FieldOr0(items[Len(items)], "quantity") * FieldOr0(items[Len(items)], "unitPrice")

RECURSIVE SumQtyPriceRate(_)
\* The sum over the items of quantity * unitPrice * vatRate: in quantity units,
\* a hundred times the sum of quantity * unitPrice * vatRate / 100.
SumQtyPriceRate(items) ==
    IF Len(items) = 0 THEN 0
    ELSE SumQtyPriceRate(SubSeq(items, 1, Len(items) - 1))
         + FieldOr0(items[Len(items)], "quantity") * FieldOr0(items[Len(items)], "unitPrice")
           * FieldOr0(items[Len(items)], "vatRate")

\* C2: for every sequence of line items, the empty one included (which gives
\* {0, 0, 0}), a missing quantity, unitPrice or vatRate counted as 0, the
\* calculator returns subtotal = sum of quantity * unitPrice, vatTotal = sum
\* of quantity * unitPrice * vatRate / 100 and total = subtotal + vatTotal
\* (amounts in hundredths of a quantity unit).
C2_TotalsAreSums ==
    pc = "done" =>
        /\ totals.subtotal = 100 * SumQtyPrice(lineItems)
        /\ totals.vatTotal = SumQtyPriceRate(lineItems)
        /\ totals.total = totals.subtotal + totals.vatTotal
        /\ (lineItems = <<>> => totals = [subtotal |-> 0, vatTotal |-> 0, total |-> 0])

\* C2: the calculator has run on two items, one without a quantity, the other
\* with all three numbers, and found VAT.
C2_Witness ==
    /\ pc = "done"
    /\ Len(lineItems) = 2
    /\ "quantity" \notin DOMAIN lineItems[1]
    /\ {"quantity", "unitPrice", "vatRate"} \subseteq DOMAIN lineItems[2]
    /\ totals.vatTotal > 0
    /\ totals.total > totals.subtotal

-----------------------------------------------------------------------------
(* The submit path's properties (SpecSubmit).                              *)

\* C3: each submit of a record that passes validation invokes the caller's
\* handler exactly once, with the validated record as argument; without a
\* handler the only effect is the success toast, and no handler is called.
C3_ValidSubmitCallsHandlerOnce ==
    [][(submits' = submits + 1 /\ Issues(values, lineItems) = {}) =>
          /\ result'.success
          /\ hasHandler =>
                 /\ handlerCalls' = handlerCalls + 1
                 /\ lastArg' = Parsed(values, lineItems)
                 /\ lastArg' = result'.data
                 /\ toasts' = toasts
          /\ ~hasHandler =>
                 /\ toasts' = toasts + 1
                 /\ handlerCalls' = handlerCalls
                 /\ lastArg' = lastArg]_vars

\* C3: two valid records were submitted to a form with a handler, which was
\* called twice, the second time with the record in the form.
C3_Witness ==
    /\ hasHandler
    /\ submits = 2
    /\ handlerCalls = 2
    /\ toasts = 0
    /\ result.success
    /\ lastArg = Parsed(values, lineItems)
    /\ "pecDestinatario" \in DOMAIN lastArg

\* C4: a submit of a record with a failing rule, whichever it is, neither
\* invokes the handler nor shows the success toast.
C4_InvalidSubmitBlocked ==
    [][(submits' = submits + 1 /\ Issues(values, lineItems) # {}) =>
          /\ ~result'.success
          /\ result'.errors = Issues(values, lineItems)
          /\ handlerCalls' = handlerCalls
          /\ lastArg' = lastArg
          /\ toasts' = toasts]_vars

\* C4: a record whose only failing rule is a line item's was submitted, and
\* nothing was called or shown.
C4_Witness ==
    /\ submits > 0
    /\ ~result.success
    /\ HeaderIssues(values) = {}
    /\ result.errors = Issues(values, lineItems)
    /\ Cardinality(result.errors) = 1
    /\ handlerCalls = 0
    /\ toasts = 0


-----------------------------------------------------------------------------
(* The schema's properties (SpecValidate).                                 *)

\* The issues the resolver reported on field f of the record.
FieldErrors(f) == {e \in result.errors : e.field = f /\ e.index = 0}

\* The issues the resolver reported on the line item at index i.
ItemErrors(i) == {e \in result.errors : e.field = "lineItems" /\ e.index = i}

\* A line item with an id, its four constrained fields, and no vatNature or
\* one of N1..N7.
WellFormedItem(item) ==
    /\ {"id", "description", "quantity", "unitPrice", "vatRate"} \subseteq DOMAIN item
    /\ "vatNature" \in DOMAIN item => item.vatNature \in {"N1", "N2", "N3", "N4", "N5", "N6", "N7"}

\* C6: a line item passes validation exactly when its description is
\* non-empty, its quantity is > 0, its unitPrice is >= 0 and its vatRate is in
\* [0, 100]: every quantity above 0 is accepted, and quantity 0 is rejected.
C6_ItemPassesIffInRanges ==
    pc = "done" =>
        \A i \in 1..Len(lineItems) :
            WellFormedItem(lineItems[i]) =>
                (ItemErrors(i) = {} <=>
                     /\ Len(lineItems[i].description) >= 1
                     /\ lineItems[i].quantity > 0
                     /\ lineItems[i].unitPrice >= 0
                     /\ lineItems[i].vatRate >= 0
                     /\ lineItems[i].vatRate <= 100)

\* What the schema does instead: the quantity must be at least 0.01, so the
\* quantities above 0 and below 0.01 are rejected like 0.
C6_ItemPassesFromMinQuantity ==
    pc = "done" =>
        \A i \in 1..Len(lineItems) :
            WellFormedItem(lineItems[i]) =>
                (ItemErrors(i) = {} <=>
                     /\ Len(lineItems[i].description) >= 1
                     /\ 100 * lineItems[i].quantity >= QuantityDen
                     /\ lineItems[i].unitPrice >= 0
                     /\ lineItems[i].vatRate >= 0
                     /\ lineItems[i].vatRate <= 100)

\* C7: a record whose lineItems is empty is rejected, with an issue on
\* lineItems; no parsed record exists for a handler to receive.
C7_EmptyLineItemsRejected ==
    (pc = "done" /\ lineItems = <<>>) =>
        /\ ~result.success
        /\ result.data = <<>>
        /\ \E e \in FieldErrors("lineItems") :
               e.sub = "" /\ e.message = "At least one line item is required"

\* C7: the resolver has run on a record that is valid but for its empty
\* lineItems.
C7_Witness ==
    /\ pc = "done"
    /\ lineItems = <<>>
    /\ HeaderIssues(values) = {}
    /\ Cardinality(result.errors) = 1

CountryFields == {"supplierCountry", "supplierCountryCode", "customerCountryCode"}

\* C8: each of supplierCountry, supplierCountryCode and customerCountryCode
\* is accepted exactly when its value has length 2; a value of any other
\* length ("ITA", or 0 or 1 characters) gets the length issue on that field.
C8_CountryLengthTwo ==
    pc = "done" =>
        \A f \in CountryFields :
            f \in DOMAIN values =>
                /\ Len(values[f]) = 2 <=> FieldErrors(f) = {}
                /\ Len(values[f]) # 2 =>
                       \E e \in FieldErrors(f) :
                           e.message = "Country code must be 2 characters"

\* C8: the resolver has run on a record with supplierCountry "ITA" and
\* customerCountryCode "IT": only the former has an issue.
C8_Witness ==
    /\ pc = "done"
    /\ CountryFields \subseteq DOMAIN values
    /\ values.supplierCountry = StrITA
    /\ values.customerCountryCode = StrIT
    /\ FieldErrors("supplierCountry") # {}
    /\ FieldErrors("customerCountryCode") = {}
    /\ ~result.success

\* C9: a record without pecDestinatario passes that rule; one with it passes
\* the rule only when the value is an e-mail address: "not-an-email" fails,
\* "a@b.it" passes.
C9_PecOptionalEmail ==
    pc = "done" =>
        /\ "pecDestinatario" \notin DOMAIN values => FieldErrors("pecDestinatario") = {}
        /\ "pecDestinatario" \in DOMAIN values =>
               /\ FieldErrors("pecDestinatario") = {} <=> IsEmail(values.pecDestinatario)
               /\ values.pecDestinatario = StrNotAnEmail =>
                      FieldErrors("pecDestinatario") # {}
               /\ values.pecDestinatario \in {EmptyStr, StrPecNoTld, StrPecDotDot,
                                              StrPecNoLocal, StrPecTwoAt} =>
                      FieldErrors("pecDestinatario") # {}
               /\ values.pecDestinatario \in {StrPec, StrPecSub} =>
                      FieldErrors("pecDestinatario") = {}

\* C9: the resolver has run on a record whose only fault is the
\* pecDestinatario "not-an-email".
C9_Witness ==
    /\ pc = "done"
    /\ "pecDestinatario" \in DOMAIN values
    /\ values.pecDestinatario = StrNotAnEmail
    /\ ~result.success
    /\ result.errors = FieldErrors("pecDestinatario")

\* C10: a line item with vatRate 0 and no vatNature fails validation; with
\* any other vatRate the vatNature may be left out.
C10_VatNatureRequiredAtZeroRate ==
    pc = "done" =>
        \A i \in 1..Len(lineItems) :
            (WellFormedItem(lineItems[i]) /\ "vatNature" \notin DOMAIN lineItems[i]) =>
                /\ lineItems[i].vatRate = 0 => ItemErrors(i) # {}
                /\ lineItems[i].vatRate # 0 =>
                       {e \in ItemErrors(i) : e.sub = "vatNature"} = {}

\* What the schema does instead: a missing vatNature raises no issue,
\* whatever the vatRate.
C10_VatNatureNeverRequired ==
    pc = "done" =>
        \A i \in 1..Len(lineItems) :
            "vatNature" \notin DOMAIN lineItems[i] =>
                {e \in ItemErrors(i) : e.sub = "vatNature"} = {}

\* The issues of each rule of the schema on a record, one set per rule: the
\* empty set for a rule that holds.
RuleOutcomes(h, items) ==
    {ProgressivoInvioRule(h), PecDestinatarioRule(h), SupplierCountryRule(h),
     SupplierVatNumberRule(h), SupplierRegimeRule(h), SupplierAddressRule(h),
     SupplierPostalCodeRule(h), SupplierCityRule(h), SupplierCountryCodeRule(h),
     CustomerAddressRule(h), CustomerPostalCodeRule(h), CustomerCityRule(h),
     CustomerCountryCodeRule(h), DocumentTypeRule(h), DocumentDateRule(h),
     DocumentNumberRule(h), LineItemsMinRule(items)}
    \cup UNION {{IdRule(items[i], i), DescriptionRule(items[i], i),
                 QuantityRule(items[i], i), UnitPriceRule(items[i], i),
                 VatRateRule(items[i], i), VatNatureRule(items[i], i)} :
                    i \in 1..Len(items)}

\* The field an issue is scoped to.
Path(e) == <<e.field, e.index, e.sub>>

\* C11: validating a record yields exactly one of two outcomes: the accepted
\* record, exactly when every rule of the schema holds, or a non-empty set of
\* field-scoped issues and no record, with exactly one message for each field
\* whose rule fails and none for any other field.
C11_AcceptedOrFieldErrors ==
    pc = "done" =>
        /\ result.success <=> result.errors = {}
        /\ result.success <=> RuleOutcomes(values, lineItems) \subseteq {{}}
        /\ result.success => result.data = Parsed(values, lineItems)
        /\ ~result.success => result.data = <<>>
        /\ \A failed \in RuleOutcomes(values, lineItems) \ {{}} :
               /\ Cardinality(failed) = 1
               /\ failed \subseteq result.errors
        /\ \A e \in result.errors :
               /\ {e} \in RuleOutcomes(values, lineItems)
               /\ \A d \in result.errors : Path(d) = Path(e) => d = e

\* C11: the resolver has run on the record of a form nobody typed into, with
\* one line item that is in order: it is rejected with one issue on each of
\* several fields.
C11_Witness ==
    /\ pc = "done"
    /\ values = DefaultValues
    /\ lineItems = <<ValidItem>>
    /\ ~result.success
    /\ Cardinality(result.errors) > 1
    /\ Cardinality({Path(e) : e \in result.errors}) = Cardinality(result.errors)

\* C12: supplierRegime is accepted only when it is one of the 18 codes RF01,
\* RF02, RF04..RF19, documentType only when it is TD07, TD08 or TD09, and a
\* vatNature that is present only when it is one of N1..N7; any other value
\* raises an issue on that field, and each listed value raises none.
C12_EnumeratedCodes ==
    pc = "done" =>
        /\ "supplierRegime" \in DOMAIN values =>
               (FieldErrors("supplierRegime") = {} <=>
                    values.supplierRegime \in
                        {"RF01", "RF02", "RF04", "RF05", "RF06", "RF07", "RF08",
                         "RF09", "RF10", "RF11", "RF12", "RF13", "RF14", "RF15",
                         "RF16", "RF17", "RF18", "RF19"})
        /\ "documentType" \in DOMAIN values =>
               (FieldErrors("documentType") = {} <=>
                    values.documentType \in {"TD07", "TD08", "TD09"})
        /\ \A i \in 1..Len(lineItems) :
               "vatNature" \in DOMAIN lineItems[i] =>
                   ({e \in ItemErrors(i) : e.sub = "vatNature"} = {} <=>
                        lineItems[i].vatNature \in
                            {"N1", "N2", "N3", "N4", "N5", "N6", "N7"})
        /\ Cardinality(RegimeCodes) = 18

\* C12: the resolver has run on a record whose only fault is the
\* supplierRegime "RF03", a code between two accepted ones.
C12_Witness ==
    /\ pc = "done"
    /\ "supplierRegime" \in DOMAIN values
    /\ values.supplierRegime = "RF03"
    /\ ~result.success
    /\ result.errors = FieldErrors("supplierRegime")
    /\ Cardinality(result.errors) = 1

-----------------------------------------------------------------------------
(* The frame of the editor's operations (Spec, SpecList).                  *)

\* The fields of a line item that have an input.
EditableFields == {"description", "quantity", "unitPrice", "vatRate", "vatNature"}

\* C16: an edit of a field inside a line item changes only that field of that
\* item: the sequence keeps its length, every item keeps its place and its
\* id, and every other field of every item, the edited one included, is as
\* it was (present with the same value, or absent).
C16_EditChangesOneField ==
    [][EditLineItem =>
          /\ Len(lineItems') = Len(lineItems)
          /\ \A j \in 1..Len(lineItems) : lineItems'[j].id = lineItems[j].id
          /\ \E i \in 1..Len(lineItems), f \in EditableFields :
                 \A j \in 1..Len(lineItems) :
                     \A k \in DOMAIN lineItems[j] \cup DOMAIN lineItems'[j] :
                         (j # i \/ k # f) =>
                             /\ k \in DOMAIN lineItems[j]
                             /\ k \in DOMAIN lineItems'[j]
                             /\ lineItems'[j][k] = lineItems[j][k]]_vars

\* C16: of two items, the second has been given a description and then a
\* quantity: it differs from a new item in these two fields only, and the
\* first is as it was created.
C16_Witness ==
    /\ pc = "form"
    /\ Len(lineItems) = 2
    /\ lineItems[1] = InitialLineItem(1)
    /\ lineItems[2] =
           SetKey(SetKey(NewLineItem(2), "description", StrA), "quantity", 2 * QuantityDen)

\* C17: Remove(index) is taken only on a sequence of more than one item, and
\* deletes exactly the item at that index: the sequence is one shorter, the
\* items before the index keep their places, those after it move up by one,
\* and each of them is as it was.
C17_RemoveDeletesThatItem ==
    [][\A i \in 1..Len(lineItems) :
           Remove(i) =>
               /\ Len(lineItems) > 1
               /\ Len(lineItems') = Len(lineItems) - 1
               /\ \A j \in 1..Len(lineItems') :
                      lineItems'[j] = lineItems[IF j < i THEN j ELSE j + 1]]_vars

\* C17: the second of three items has been removed after the third was
\* edited: the first and the third are left, in this order, the third as
\* edited.
C17_Witness ==
    /\ pc = "form"
    /\ nextId = 4
    /\ Len(lineItems) = 2
    /\ lineItems[1] = InitialLineItem(1)
    /\ lineItems[2] = SetKey(NewLineItem(3), "unitPrice", 100)

\* The ids of a sequence of items, in order, and as a set.
IdSeq(items) == [j \in 1..Len(items) |-> items[j].id]
Ids(items) == {items[j].id : j \in 1..Len(items)}

\* C19: in every state the ids of the line items are pairwise distinct, and
\* every step keeps the ids of the items it keeps: the ids in order are as
\* before, or as before without one of them, or as before with one more at
\* the end that no item had.
C19_IdsDistinctAndKept ==
    /\ [](\A i, j \in 1..Len(lineItems) :
              i # j => lineItems[i].id # lineItems[j].id)
    /\ [][\/ IdSeq(lineItems') = IdSeq(lineItems)
          \/ \E i \in 1..Len(lineItems) :
                 IdSeq(lineItems') = RemoveAt(IdSeq(lineItems), i)
          \/ /\ Len(lineItems') = Len(lineItems) + 1
             /\ SubSeq(IdSeq(lineItems'), 1, Len(lineItems)) = IdSeq(lineItems)
             /\ lineItems'[Len(lineItems')].id \notin Ids(lineItems)]_vars

\* C19: two items were added, the first item was removed and a remaining one
\* edited: the items have the ids of the two appends.
C19_Witness ==
    /\ pc = "form"
    /\ nextId = 4
    /\ IdSeq(lineItems) = <<2, 3>>
    /\ lineItems[1].quantity = 2 * QuantityDen

\* C18: in every reachable state, after any sequence of Add, Remove and field
\* edits, the totals shown are the calculator's result on the current line
\* items.
C18_TotalsNeverStale ==
    pc = "form" => totals = Totals(lineItems)

\* What the component does instead: the totals shown after Add and after
\* Remove are the calculator's result on the current line items; after a
\* field edit they may still be those of the line items as they were before.
C18_TotalsFreshAfterAddRemove ==
    [][(AddListItem \/ \E i \in 1..Len(lineItems) : Remove(i)) =>
           totals' = Totals(lineItems')]_vars

-----------------------------------------------------------------------------
(* The new form's properties (SpecCreate).                                 *)

\* C13: the record of a newly created form has supplierCountry,
\* supplierCountryCode and customerCountryCode "IT", documentType "TD07",
\* currency "EUR", supplierRegime "RF01", documentDate the date of the day on
\* the user's calendar, and exactly one line item, with quantity 1, unitPrice
\* 0 and vatRate 22.
C13_NewFormDefaults ==
    [][CreateForm =>
          /\ values'.supplierCountry = <<"I", "T">>
          /\ values'.supplierCountryCode = <<"I", "T">>
          /\ values'.customerCountryCode = <<"I", "T">>
          /\ values'.documentType = "TD07"
          /\ values'.currency = <<"E", "U", "R">>
          /\ values'.supplierRegime = "RF01"
          /\ values'.documentDate = IsoDate(clock.local)
          /\ Len(lineItems') = 1
          /\ lineItems'[1].quantity = 1 * QuantityDen
          /\ lineItems'[1].unitPrice = 0
          /\ lineItems'[1].vatRate = 22]_vars

\* What the component does instead: the record is as above, but documentDate
\* is the date of the day in UTC, which after midnight east of Greenwich is
\* the day before the one on the user's calendar.
C13_NewFormDefaultsUtcDate ==
    [][CreateForm =>
          /\ values'.supplierCountry = <<"I", "T">>
          /\ values'.supplierCountryCode = <<"I", "T">>
          /\ values'.customerCountryCode = <<"I", "T">>
          /\ values'.documentType = "TD07"
          /\ values'.currency = <<"E", "U", "R">>
          /\ values'.supplierRegime = "RF01"
          /\ values'.documentDate = IsoDate(clock.utc)
          /\ Len(lineItems') = 1
          /\ lineItems'[1].quantity = 1 * QuantityDen
          /\ lineItems'[1].unitPrice = 0
          /\ lineItems'[1].vatRate = 22]_vars

-----------------------------------------------------------------------------
(* The mount surface's properties (SpecPage).                              *)

\* C14: render(container) records on the container the root it created, which
\* is mounted there; unmount(container) unmounts the root recorded on the
\* container and removes the record, so that after render(container) followed
\* by unmount(container) the form that render created is unmounted and the
\* container holds no reference to it.
C14_UnmountReleases ==
    /\ [](\A c \in Containers :
              ref[c] # 0 => ref[c] \in DOMAIN roots /\ roots[ref[c]].container = c)
    /\ [][\A c \in Containers :
              InvoiceFormAPI_render(c) =>
                  /\ ref'[c] = nextRoot
                  /\ nextRoot \in DOMAIN roots'
                  /\ roots'[nextRoot].container = c]_vars
    /\ [][\A c \in Containers :
              InvoiceFormAPI_unmount(c) =>
                  /\ ref'[c] = 0
                  /\ ref[c] # 0 => ref[c] \notin DOMAIN roots']_vars

\* C14: one form was rendered, used and unmounted: no root is mounted and no
\* container has the property.
C14_Witness ==
    /\ pc = "page"
    /\ nextRoot = 2
    /\ submits = 1
    /\ roots = <<>>
    /\ \A c \in Containers : ref[c] = 0

\* C15: an Add, a Remove, a field edit or a submit on a form, and the unmount
\* of its container, leave every form mounted in another container as it
\* was: its record, its line items, its being mounted and its container's
\* reference to it.
C15_InstancesIndependent ==
    [][\A r \in DOMAIN roots :
           (FormStep(r) \/ InvoiceFormAPI_unmount(roots[r].container)) =>
               \A s \in DOMAIN roots :
                   roots[s].container # roots[r].container =>
                       /\ s \in DOMAIN roots'
                       /\ roots'[s] = roots[s]
                       /\ ref'[roots[s].container] = ref[roots[s].container]]_vars

\* C15: two forms are mounted, each in its container; the second has been
\* typed into and given a second line item, the first is as it was created.
C15_Witness ==
    /\ pc = "page"
    /\ DOMAIN roots = {1, 2}
    /\ Displayed(1)
    /\ Displayed(2)
    /\ roots[1].form = NewForm(1, hasHandler, clock)
    /\ Len(roots[2].form.lineItems) = 2
    /\ roots[2].form.values = Merge(DefaultValuesAt(clock), TypedValid)

\* C20: after any sequence of render and unmount calls, every root mounted
\* in a container is the root recorded on that container, so that each
\* container has at most one mounted root and unmount reaches it.
C20_OneRootPerContainer ==
    pc = "page" =>
        \A r \in DOMAIN roots : ref[roots[r].container] = r

-----------------------------------------------------------------------------
(* The submit of a form nobody typed into (SpecSubmit).                    *)

\* The required fields that defaultValues leaves out.
AbsentByDefault ==
    {"supplierVatNumber", "supplierAddress", "supplierPostalCode", "supplierCity",
     "customerAddress", "customerPostalCode", "customerCity", "documentNumber"}

\* C21: a form submitted as it was created, with no edit, is rejected: the
\* empty progressivoInvio, the empty description of the one line item and
\* each required field that the defaults leave out raise an issue, and
\* neither the handler nor the success toast has been reached; whenever the
\* handler has been invoked, the record it got has every one of these fields
\* filled.
C21_FreshFormRejected ==
    /\ (pc = "form" /\ values = DefaultValues /\ lineItems = <<InitialLineItem(1)>>
            /\ submits > 0) =>
           /\ ~result.success
           /\ result.data = <<>>
           /\ handlerCalls = 0
           /\ toasts = 0
           /\ \E e \in FieldErrors("progressivoInvio") :
                  e.message = "Progressive number is required"
           /\ \E e \in ItemErrors(1) :
                  e.sub = "description" /\ e.message = "Description is required"
           /\ \A f \in AbsentByDefault :
                  \E e \in FieldErrors(f) : e.message = "Required"
           /\ Cardinality(result.errors) = Cardinality(AbsentByDefault) + 2
    /\ (pc = "form" /\ handlerCalls > 0) =>
           /\ \A f \in AbsentByDefault \cup {"progressivoInvio"} :
                  f \in DOMAIN lastArg /\ Len(lastArg[f]) >= 1
           /\ \A i \in 1..Len(lastArg.lineItems) :
                  Len(lastArg.lineItems[i].description) >= 1

\* C21: the form was submitted twice as it was created, to a caller with a
\* handler: the handler was not called.
C21_Witness ==
    /\ pc = "form"
    /\ hasHandler
    /\ values = DefaultValues
    /\ lineItems = <<InitialLineItem(1)>>
    /\ submits = 2
    /\ ~result.success
    /\ handlerCalls = 0

-----------------------------------------------------------------------------
(* The bounds of the totals (SpecCalc).                                    *)

\* An item with its three numbers in the ranges of the schema's messages:
\* quantity > 0, unitPrice >= 0, 0 <= vatRate <= 100.
InRanges(item) ==
    /\ {"quantity", "unitPrice", "vatRate"} \subseteq DOMAIN item
    /\ item.quantity > 0
    /\ item.unitPrice >= 0
    /\ item.vatRate >= 0
    /\ item.vatRate <= 100

=============================================================================
